---- MODULE Spec2Model ----
(***************************************************************************)
(* State-machine model of the "I'm Starving" picker (App component).       *)
(*                                                                         *)
(* The React component is modelled event by event: every user handler,     *)
(* every fetch / geolocation callback and the page (re)start is one action *)
(* that runs the handler together with the re-render effects it triggers   *)
(* (the three useEffect blocks), because no other event can run between a  *)
(* handler and the effects of the commit it causes.                        *)
(*                                                                         *)
(* Conventions                                                             *)
(*  - an optional value (null / undefined in the source) is a sequence of  *)
(*    length 0 (None) or 1 (Some(x));                                      *)
(*  - record positions are 0-based as in the source: At(arr, i);           *)
(*  - a JS Set<string> is a duplicate-free sequence in insertion order,    *)
(*    because Array.from(set) and JSON.stringify expose that order;        *)
(*  - a JSON text is represented by its parse tree;                        *)
(*  - coordinates are integers in millidegrees and distances integers in   *)
(*    metres; every place and user position of the model lies on one       *)
(*    meridian, where the haversine formula reduces to R * |dLat|.         *)
(*  - the cosmetic `picking` flag (250 ms animation timer) is not part of  *)
(*    the model.                                                           *)
(***************************************************************************)
EXTENDS Integers, Sequences, FiniteSets, TLC

None == <<>>
Some(x) == <<x>>
Get(o) == o[1]

At(arr, i) == arr[i + 1]
Positions(arr) == 0 .. (Len(arr) - 1)
Range(s) == {s[i] : i \in 1 .. Len(s)}
Contains(s, x) == \E i \in 1 .. Len(s) : s[i] = x

(***************************************************************************)
(* Bounds of the model.                                                    *)
(***************************************************************************)
\* fetches that may be outstanding at once (live and superseded together)
MaxInFlight == 2
\* geolocation requests that may be outstanding at once
MaxGeoInFlight == 2

\* records of the largest generated dataset resource
MaxPlaces == 34

(***************************************************************************)
(* Program constants.                                                      *)
(***************************************************************************)
STORAGE_KEY_PREFIX == "im-starving:visited"
DATASET_STORAGE_KEY == "im-starving:selected-dataset"

DATASETS ==
  << [id |-> "singapore", label |-> "Singapore", path |-> "/places-singapore.json"],
     [id |-> "hong-kong", label |-> "Hong Kong", path |-> "/places-hongkong.json"] >>

DatasetId == {DATASETS[i].id : i \in 1 .. Len(DATASETS)}
DEFAULT_DATASET_ID == "singapore"

storageKey(id) == STORAGE_KEY_PREFIX \o ":" \o id

StorageKeys == {DATASET_STORAGE_KEY} \cup {storageKey(id) : id \in DatasetId}

EarthRadiusKm == 6371
NearbyRadiusKm == 2
NearbyLimit == 30

(***************************************************************************)
(* Place records and the identity key.                                     *)
(***************************************************************************)
Truthy(o) == o # None /\ Get(o) # ""

\* Faulty variant of placeKey: an empty url or title counts as present (a
\* test against undefined instead of a truthiness test).
placeKeyIfDefined(place, index) ==
  IF place.url # None THEN Get(place.url)
  ELSE IF place.title # None
       THEN Get(place.title) \o "::" \o (IF place.street = None THEN "" ELSE Get(place.street))
       ELSE "index-" \o ToString(index)

placeKey(place, index) ==
  IF Truthy(place.url) THEN Get(place.url)
  ELSE IF Truthy(place.title)
       THEN Get(place.title) \o "::" \o (IF place.street = None THEN "" ELSE Get(place.street))
       ELSE "index-" \o ToString(index)

KeyAt(arr, i) == placeKey(At(arr, i), i)
KeysOf(arr) == {KeyAt(arr, i) : i \in Positions(arr)}

(***************************************************************************)
(* The dataset resources the model serves.  Positions 0 and 2 of the       *)
(* Singapore resource share one url (hence one key); position 1 has        *)
(* neither url nor title and a location that does not coerce to numbers.   *)
(* The Hong Kong resource has one record, keyed by title and street.       *)
(***************************************************************************)
Coord(lat) == [lat |-> lat, lng |-> 103800]

SingaporePlaces ==
  << [url |-> Some("https://maps.example/u1"), title |-> Some("Hawker A"),
      street |-> Some("1 Road"), location |-> Some([lat |-> Some(1300), lng |-> Some(103800)]),
      scrapedAt |-> Some(2)],
     [url |-> None, title |-> Some(""), street |-> Some("9 Lane"),
      location |-> Some([lat |-> None, lng |-> Some(103800)]), scrapedAt |-> None],
     [url |-> Some("https://maps.example/u1"), title |-> Some("Hawker A (stall 2)"),
      street |-> None, location |-> Some([lat |-> Some(1310), lng |-> Some(103800)]),
      scrapedAt |-> Some(1)] >>

HongKongPlaces ==
  << [url |-> Some(""), title |-> Some("Tim Ho Wan"), street |-> None,
      location |-> Some([lat |-> Some(1305), lng |-> Some(103800)]), scrapedAt |-> Some(3)] >>

Content(id) == IF id = "singapore" THEN SingaporePlaces ELSE HongKongPlaces

\* What a fetch of a dataset resource can produce: a rejected fetch, a
\* non-success status, a body that is not JSON, or a JSON body of one of the
\* shapes the loader distinguishes.
Responses(id) ==
  { [kind |-> "reject"],
    [kind |-> "http", status |-> 404],
    [kind |-> "badjson"],
    [kind |-> "json", raw |-> [shape |-> "array", items |-> Content(id)]],
    [kind |-> "json", raw |-> [shape |-> "object", data |-> Some(Content(id))]],
    [kind |-> "json", raw |-> [shape |-> "array", items |-> <<>>]],
    [kind |-> "json", raw |-> [shape |-> "object", data |-> Some(<<>>)]],
    [kind |-> "json", raw |-> [shape |-> "object", data |-> None]],
    [kind |-> "json", raw |-> [shape |-> "scalar"]] }

\* The device positions the platform can report.
UserPositions == {Coord(1300), Coord(1400)}

GeoFailureMessages == {"User denied Geolocation"}

(***************************************************************************)
(* localStorage values.  The selection entry holds a plain string.  A      *)
(* visited entry holds a JSON text, represented by its parse tree; the     *)
(* program itself only ever writes arrays of strings (JSON.stringify of    *)
(* Array.from(visited)).                                                   *)
(***************************************************************************)
JsonStringify(keys) == [json |-> "array", items |-> keys]

\* JSON.parse of a stored entry followed by the Array.isArray / typeof
\* filter; a missing entry, a text that does not parse and a non-array value
\* all give the empty list.  Every array item of the model is a string.
ParseStoredKeys(stored) ==
  IF stored = None THEN <<>>
  ELSE IF Get(stored).json = "array" THEN Get(stored).items
  ELSE <<>>

StoredSet(stored) == Range(ParseStoredKeys(stored))

(***************************************************************************)
(* Dataset loader: payload normalisation and the per-record pass.          *)
(***************************************************************************)
\* Faulty variant of NormalizePayload: the { data: [...] } wrapper is not
\* unwrapped.
NormalizeTopLevelOnly(raw) == IF raw.shape = "array" THEN raw.items ELSE <<>>

\* const arr = Array.isArray(raw) ? raw : Array.isArray(raw?.data) ? raw.data : []
NormalizePayload(raw) ==
  IF raw.shape = "array" THEN raw.items
  ELSE IF raw.shape = "object" /\ raw.data # None THEN Get(raw.data)
  ELSE <<>>

\* nextVisited: the keys of the records, in record order, that the stored
\* set has (a Set: a key is inserted once).
RECURSIVE VisitedFrom(_, _, _, _)
VisitedFrom(arr, storedSet, i, acc) ==
  IF i >= Len(arr) THEN acc
  ELSE LET key == KeyAt(arr, i) IN
       VisitedFrom(arr, storedSet, i + 1,
                   IF key \in storedSet /\ ~Contains(acc, key) THEN Append(acc, key) ELSE acc)

NextVisited(arr, storedSet) == VisitedFrom(arr, storedSet, 0, <<>>)

\* A record has usable coordinates when its location is an object whose
\* lat and lng coerce to numbers (Number(undefined) is NaN).
HasCoords(place) ==
  /\ place.location # None
  /\ Get(place.location).lat # None
  /\ Get(place.location).lng # None

CoordsOf(place) ==
  [lat |-> Get(Get(place.location).lat), lng |-> Get(Get(place.location).lng)]

\* nextCoords[key] = {lat, lng}: a later record with the same key overwrites
\* an earlier one.
NextCoords(arr) ==
  LET located == {i \in Positions(arr) : HasCoords(At(arr, i))}
      lastWith(k) == CHOOSE i \in located :
                        /\ KeyAt(arr, i) = k
                        /\ \A j \in located : KeyAt(arr, j) = k => j <= i
  IN [k \in {KeyAt(arr, i) : i \in located} |-> CoordsOf(At(arr, lastWith(k)))]

\* freshest: the newest scrapedAt among the records, if any.
Freshest(arr) ==
  LET stamps == {Get(At(arr, i).scrapedAt) : i \in {j \in Positions(arr) : At(arr, j).scrapedAt # None}}
  IN IF stamps = {} THEN None ELSE Some(CHOOSE t \in stamps : \A u \in stamps : u <= t)

\* The message of the error a response makes loadDataset throw, or None when
\* the response carries a non-empty list of records.
LoadFailure(resp) ==
  CASE resp.kind = "reject" -> Some("Failed to fetch")
    [] resp.kind = "http" -> Some("Failed to load dataset (status " \o ToString(resp.status) \o ")")
    [] resp.kind = "badjson" -> Some("Unexpected token < in JSON at position 0")
    [] OTHER -> IF Len(NormalizePayload(resp.raw)) = 0
                THEN Some("Dataset is empty or invalid.")
                ELSE None

(***************************************************************************)
(* State.                                                                  *)
(***************************************************************************)
VARIABLES
  mounted,              \* FALSE between construction and the first effects
  datasetId, data, loadError, loading, seen, currentIdx, selectionSource,
  visited, geoCache, userLocation, locationError, geolocating,
  locationStatus, statusMessage, datasetInfo,
  localStorage,         \* window.localStorage: key -> optional value
  loads,                \* fetches in flight, in the order they were issued
  geoRequests,          \* getCurrentPosition calls not yet answered
  geolocationSupported, \* whether navigator.geolocation exists
  last,                 \* the event that produced the current state
  storedBefore          \* observation: the keys that were stored for the
                        \* dataset being loaded, before the load was started

appVars == <<datasetId, data, loadError, loading, seen, currentIdx, selectionSource,
             visited, geoCache, statusMessage, datasetInfo>>
geoVars == <<userLocation, locationError, geolocating, locationStatus>>
vars == <<mounted, appVars, geoVars, localStorage, loads, geoRequests,
          geolocationSupported, last, storedBefore>>

NoReq == [ds |-> "", cancelled |-> FALSE, origin |-> ""]
NoResp == [kind |-> "none"]
Event(op) == [op |-> op, req |-> NoReq, resp |-> NoResp]

\* Faulty variant of InitialDatasetId: whatever is stored is taken as the
\* identifier.
InitialDatasetIdUnchecked(store) ==
  IF store[DATASET_STORAGE_KEY] # None THEN Get(store[DATASET_STORAGE_KEY])
  ELSE DEFAULT_DATASET_ID

\* useState initialiser of datasetId: the stored identifier when it is one of
\* DATASETS, else the default.
InitialDatasetId(store) ==
  LET stored == store[DATASET_STORAGE_KEY] IN
  IF stored # None /\ \E i \in 1 .. Len(DATASETS) : DATASETS[i].id = Get(stored)
  THEN Get(stored) ELSE DEFAULT_DATASET_ID

\* The useState initial values, for a given localStorage.
Constructed(store) ==
  /\ mounted = FALSE
  /\ datasetId = InitialDatasetId(store)
  /\ data = <<>>
  /\ loadError = None
  /\ loading = TRUE
  /\ seen = {}
  /\ currentIdx = None
  /\ selectionSource = None
  /\ visited = <<>>
  /\ geoCache = <<>>
  /\ userLocation = None
  /\ locationError = None
  /\ geolocating = FALSE
  /\ locationStatus = "idle"
  /\ statusMessage = None
  /\ datasetInfo = None

\* What an earlier session can have left in localStorage for a dataset:
\* nothing, or the keys marked visited then.  The resource may have changed
\* since: the last key of each entry names a place that is no longer served.
StoredByEarlierSession(id) ==
  IF id = "singapore"
  THEN {None, Some(JsonStringify(<<"https://maps.example/u1", "https://maps.example/closed">>))}
  ELSE {None, Some(JsonStringify(<<"Tim Ho Wan::", "Closed Cafe::">>))}

\* The page is opened: each visited entry is missing or left by an earlier
\* session; the selection entry is missing, holds an identifier of DATASETS,
\* or holds something else.
Init ==
  /\ \E sel \in {None, Some("hong-kong"), Some("tokyo")} :
     \E sg \in StoredByEarlierSession("singapore") :
     \E hk \in StoredByEarlierSession("hong-kong") :
       localStorage = [k \in StorageKeys |->
                         IF k = DATASET_STORAGE_KEY THEN sel
                         ELSE IF k = storageKey("singapore") THEN sg ELSE hk]
  /\ Constructed(localStorage)
  /\ loads = <<>>
  /\ geoRequests = 0
  /\ geolocationSupported \in BOOLEAN
  /\ last = Event("start")
  /\ storedBefore = None

(***************************************************************************)
(* Effects.                                                                *)
(***************************************************************************)
\* useEffect [datasetId]: persist the selection.
\* useEffect [visited, datasetId]: persist the visited set under the key of
\* the dataset identifier of the render that runs the effect.
PersistSelection(store, id) == [store EXCEPT ![DATASET_STORAGE_KEY] = Some(id)]
PersistVisited(store, id, vis) == [store EXCEPT ![storageKey(id)] = Some(JsonStringify(vis))]

\* useEffect [datasetId, datasetMeta.path]: the cleanup of the previous run
\* sets its `cancelled`, then loadDataset() is started for the new selection.
\* `origin` records what started the load.
Request(id, origin) == [ds |-> id, cancelled |-> FALSE, origin |-> origin]

CancelAll(reqs) == [i \in 1 .. Len(reqs) |-> [reqs[i] EXCEPT !.cancelled = TRUE]]

\* The first commit: the three effects run once, in source order.
Mount ==
  /\ ~mounted
  /\ mounted' = TRUE
  /\ loading' = TRUE
  /\ loads' = Append(loads, Request(datasetId, "mount"))
  /\ localStorage' = PersistVisited(PersistSelection(localStorage, datasetId), datasetId, visited)
  /\ last' = Event("mount")
  /\ UNCHANGED <<datasetId, data, loadError, seen, currentIdx, selectionSource, visited,
                 geoCache, statusMessage, datasetInfo, geoVars, geoRequests,
                 geolocationSupported>>

RemoveAt(s, i) == SubSeq(s, 1, i - 1) \o SubSeq(s, i + 1, Len(s))

\* Faulty variant of Superseded: the cancellation flag is never honoured.
NeverSuperseded(req) == FALSE

\* if (cancelled) return, in the try block and in the catch block.
Superseded(req) == req.cancelled

\* Faulty variant of ApplyLoaded: the round and the focus of the previous
\* dataset are kept.
ApplyLoadedKeepingRound(arr, nextVisited) ==
  /\ data' = arr
  /\ visited' = nextVisited
  /\ geoCache' = NextCoords(arr)
  /\ datasetInfo' = Some([total |-> Len(arr), lastUpdated |-> Freshest(arr)])
  /\ statusMessage' = None
  /\ loadError' = None
  /\ loading' = FALSE
  /\ localStorage' = PersistVisited(localStorage, datasetId, nextVisited)
  /\ UNCHANGED <<seen, currentIdx, selectionSource>>

\* The success path of loadDataset (setData ... setLoadError(null)), the
\* finally block, and the persist effect that the new visited set triggers.
ApplyLoaded(arr, nextVisited) ==
  /\ data' = arr
  /\ visited' = nextVisited
  /\ geoCache' = NextCoords(arr)
  /\ datasetInfo' = Some([total |-> Len(arr), lastUpdated |-> Freshest(arr)])
  /\ seen' = {}
  /\ currentIdx' = None
  /\ selectionSource' = None
  /\ statusMessage' = None
  /\ loadError' = None
  /\ loading' = FALSE
  /\ localStorage' = PersistVisited(localStorage, datasetId, nextVisited)

\* Faulty variant of ApplyLoadError: the finally block does not run.
ApplyLoadErrorStillLoading(message) ==
  /\ data' = <<>>
  /\ visited' = <<>>
  /\ geoCache' = <<>>
  /\ datasetInfo' = None
  /\ loadError' = Some(message)
  /\ selectionSource' = None
  /\ statusMessage' = None
  /\ localStorage' = PersistVisited(localStorage, datasetId, <<>>)
  /\ UNCHANGED <<seen, currentIdx, loading>>

\* The catch block of loadDataset, the finally block, and the persist effect
\* that the new (empty) visited set triggers.
ApplyLoadError(message) ==
  /\ data' = <<>>
  /\ visited' = <<>>
  /\ geoCache' = <<>>
  /\ datasetInfo' = None
  /\ loadError' = Some(message)
  /\ selectionSource' = None
  /\ statusMessage' = None
  /\ loading' = FALSE
  /\ localStorage' = PersistVisited(localStorage, datasetId, <<>>)
  /\ UNCHANGED <<seen, currentIdx>>

\* A fetch issued by loadDataset settles with `resp`; the rest of
\* loadDataset runs, then the effects of the commit it causes.  The stored
\* keys are read under the identifier the load was started for.
LoadSettled(i, resp) ==
  LET req == loads[i]
      failure == LoadFailure(resp)
      arr == NormalizePayload(resp.raw)
  IN
  /\ mounted
  /\ loads' = RemoveAt(loads, i)
  /\ UNCHANGED <<mounted, datasetId, geoVars, geoRequests, geolocationSupported>>
  /\ IF Superseded(req)
     THEN /\ last' = [op |-> "loadDiscarded", req |-> req, resp |-> resp]
          /\ UNCHANGED <<data, loadError, loading, seen, currentIdx, selectionSource,
                         visited, geoCache, statusMessage, datasetInfo, localStorage>>
     ELSE IF failure = None
     THEN /\ ApplyLoaded(arr, NextVisited(arr, StoredSet(localStorage[storageKey(req.ds)])))
          /\ last' = [op |-> "loadOk", req |-> req, resp |-> resp]
     ELSE /\ ApplyLoadError(Get(failure))
          /\ last' = [op |-> "loadFailed", req |-> req, resp |-> resp]

(***************************************************************************)
(* Derived values of a render.                                             *)
(***************************************************************************)
VisitedHas(key) == Contains(visited, key)

\* Faulty variant of availableCount: the records less the visited keys.
availableCountByKeys == Len(data) - Len(visited)

availableCount == Cardinality({i \in Positions(data) : ~VisitedHas(KeyAt(data, i))})
visitedCount == Len(visited)
allVisited == ~loading /\ Len(data) > 0 /\ availableCount = 0

\* current: the record at currentIdx, when there is one.
HasCurrent == currentIdx # None /\ Get(currentIdx) \in Positions(data)
currentKey == IF HasCurrent THEN Some(KeyAt(data, Get(currentIdx))) ELSE None
currentIsVisited == currentKey # None /\ VisitedHas(Get(currentKey))

\* Great-circle distance in metres between two points of one meridian:
\* dLng = 0, so h = sin^2(dLat / 2) and R * c = R * |dLat|, with dLat in
\* radians: millidegrees * (pi / 180) / 1000, pi taken as 3.1416.
MetresPerDegree == (EarthRadiusKm * 31416) \div 1800

haversineDistance(a, b) ==
  LET dLat == IF b.lat >= a.lat THEN b.lat - a.lat ELSE a.lat - b.lat
  IN (dLat * MetresPerDegree) \div 1000

\* Array.prototype.sort with (a, b) => a.distanceKm - b.distanceKm is
\* stable: entries at equal distance keep their record order.
RECURSIVE InsertByDistance(_, _)
InsertByDistance(sorted, e) ==
  IF sorted = <<>> THEN <<e>>
  ELSE IF Head(sorted).distance <= e.distance
       THEN <<Head(sorted)>> \o InsertByDistance(Tail(sorted), e)
       ELSE <<e>> \o sorted

RECURSIVE SortByDistance(_)
SortByDistance(entries) ==
  IF entries = <<>> THEN <<>>
  ELSE InsertByDistance(SortByDistance(SubSeq(entries, 1, Len(entries) - 1)),
                        entries[Len(entries)])

RECURSIVE NearbyEntries(_)
NearbyEntries(i) ==
  IF i >= Len(data) THEN <<>>
  ELSE LET key == KeyAt(data, i)
           inCache == key \in DOMAIN geoCache
           d == haversineDistance(Get(userLocation), geoCache[key])
       IN IF inCache /\ ~(d > NearbyRadiusKm * 1000)
          THEN <<[idx |-> i, distance |-> d, key |-> key, isVisited |-> VisitedHas(key),
                  coords |-> geoCache[key]]>> \o NearbyEntries(i + 1)
          ELSE NearbyEntries(i + 1)

\* Faulty variant of nearbyPlaces: the sorted list is not cut.
nearbyPlacesUncut ==
  IF userLocation = None THEN <<>> ELSE SortByDistance(NearbyEntries(0))

nearbyPlaces ==
  IF userLocation = None THEN <<>>
  ELSE LET sorted == SortByDistance(NearbyEntries(0))
       IN SubSeq(sorted, 1, IF Len(sorted) < NearbyLimit THEN Len(sorted) ELSE NearbyLimit)

NearbyIdx == {nearbyPlaces[n].idx : n \in 1 .. Len(nearbyPlaces)}

(***************************************************************************)
(* Handlers.                                                               *)
(***************************************************************************)
RECURSIVE Ascending(_)
Ascending(S) ==
  IF S = {} THEN <<>>
  ELSE LET m == CHOOSE x \in S : \A y \in S : x <= y IN <<m>> \o Ascending(S \ {m})

\* Faulty variant of Available: visited places stay in the draw.
AvailableWithVisited == Ascending(Positions(data))

\* available: the positions, in order, whose key is not visited.
Available == Ascending({i \in Positions(data) : ~VisitedHas(KeyAt(data, i))})

\* Faulty variant of LocalSeen: every draw starts a new round.
LocalSeenAlwaysFresh == {}

\* Faulty variant of LocalSeen: seen is not restricted to the available
\* positions.
LocalSeenUnrestricted ==
  IF Cardinality(seen) >= Len(Available) THEN {} ELSE seen

\* localSeen: seen restricted to the available positions, emptied when it
\* covers them all.
LocalSeen ==
  LET kept == seen \cap Range(Available)
  IN IF Cardinality(kept) >= Len(Available) THEN {} ELSE kept

\* Faulty variant of Pool: places already seen in the round stay in the pool.
PoolWithSeen == Available

\* pool: the available positions not yet seen in this round.
Pool == LET Unseen(i) == i \notin LocalSeen IN SelectSeq(Available, Unseen)

\* Observation of a draw: turn alternates between 0 and 1 over draws that
\* follow one another with no other event in between, so that each of them
\* is a step of its own even when it leaves the state of the page as it was.
DrawEvent ==
  [Event("pick") EXCEPT
     !.resp = [kind |-> "draw",
               turn |-> IF last.op = "pick" THEN 1 - last.resp.turn ELSE 0]]

\* Faulty variant of handlePickRandom: with nothing left to draw the round is
\* started over.
handlePickRandomClearingSeen ==
  /\ mounted
  /\ ~(loading \/ Len(data) = 0)
  /\ IF Len(Available) = 0
     THEN /\ statusMessage' = Some("All places are marked visited. Clear visited to start over.")
          /\ currentIdx' = None
          /\ selectionSource' = None
          /\ seen' = {}
     ELSE \E r \in 0 .. (Len(Pool) - 1) :
            LET pick == At(Pool, r) IN
            /\ seen' = LocalSeen \cup {pick}
            /\ currentIdx' = Some(pick)
            /\ selectionSource' = Some("hero")
            /\ statusMessage' = None
  /\ last' = DrawEvent
  /\ UNCHANGED <<mounted, datasetId, data, loadError, loading, visited, geoCache, datasetInfo,
                 geoVars, localStorage, loads, geoRequests, geolocationSupported>>

\* The draw.  r is Math.floor(Math.random() * pool.length).
handlePickRandom ==
  /\ mounted
  /\ ~(loading \/ Len(data) = 0)
  /\ IF Len(Available) = 0
     THEN /\ statusMessage' = Some("All places are marked visited. Clear visited to start over.")
          /\ currentIdx' = None
          /\ selectionSource' = None
          /\ UNCHANGED seen
     ELSE \E r \in 0 .. (Len(Pool) - 1) :
            LET pick == At(Pool, r) IN
            /\ seen' = LocalSeen \cup {pick}
            /\ currentIdx' = Some(pick)
            /\ selectionSource' = Some("hero")
            /\ statusMessage' = None
  /\ last' = DrawEvent
  /\ UNCHANGED <<mounted, datasetId, data, loadError, loading, visited, geoCache, datasetInfo,
                 geoVars, localStorage, loads, geoRequests, geolocationSupported>>

handleReset ==
  /\ mounted
  /\ seen' = {}
  /\ currentIdx' = None
  /\ statusMessage' = Some("Seen list cleared.")
  /\ selectionSource' = None
  /\ last' = Event("reset")
  /\ UNCHANGED <<mounted, datasetId, data, loadError, loading, visited, geoCache, datasetInfo,
                 geoVars, localStorage, loads, geoRequests, geolocationSupported>>

\* setDatasetId(nextId), then the effects of the commit: the selection is
\* persisted, the previous load is flagged cancelled and a new one started
\* (setLoading(true)), and the visited set still in memory is persisted under
\* the key of the new identifier.
handleDatasetChange(nextId) ==
  /\ mounted
  /\ nextId # datasetId
  /\ Len(loads) < MaxInFlight
  /\ datasetId' = nextId
  /\ loading' = TRUE
  /\ loads' = Append(CancelAll(loads), Request(nextId, "switch"))
  /\ localStorage' = PersistVisited(PersistSelection(localStorage, nextId), nextId, visited)
  /\ last' = Event("switch")
  /\ UNCHANGED <<mounted, data, loadError, seen, currentIdx, selectionSource, visited, geoCache,
                 statusMessage, datasetInfo, geoVars, geoRequests, geolocationSupported>>

\* Faulty variant of focusPlace: focusing the focused position again keeps
\* it focused.
focusPlaceNoToggle(idx) ==
  /\ mounted
  /\ selectionSource' = Some("list")
  /\ currentIdx' = Some(idx)
  /\ seen' = seen \cup {idx}
  /\ last' = [Event("focus") EXCEPT !.resp = [kind |-> "entry", idx |-> idx]]
  /\ UNCHANGED <<mounted, datasetId, data, loadError, loading, visited, geoCache, statusMessage,
                 datasetInfo, geoVars, localStorage, loads, geoRequests, geolocationSupported>>

focusPlace(idx) ==
  /\ mounted
  /\ IF currentIdx = Some(idx)
     THEN /\ selectionSource' = None
          /\ currentIdx' = None
     ELSE /\ selectionSource' = Some("list")
          /\ currentIdx' = Some(idx)
  /\ seen' = seen \cup {idx}
  /\ last' = [Event("focus") EXCEPT !.resp = [kind |-> "entry", idx |-> idx]]
  /\ UNCHANGED <<mounted, datasetId, data, loadError, loading, visited, geoCache, statusMessage,
                 datasetInfo, geoVars, localStorage, loads, geoRequests, geolocationSupported>>

\* Faulty variant of markVisited: the position stays in the seen set.
markVisitedKeepingSeen ==
  /\ mounted
  /\ ~(currentIdx = None \/ currentKey = None)
  /\ ~VisitedHas(Get(currentKey))
  /\ visited' = Append(visited, Get(currentKey))
  /\ currentIdx' = None
  /\ statusMessage' = Some("Marked as visited.")
  /\ selectionSource' = None
  /\ localStorage' = PersistVisited(localStorage, datasetId, visited')
  /\ last' = Event("markVisited")
  /\ UNCHANGED <<mounted, datasetId, data, loadError, loading, geoCache, datasetInfo, geoVars,
                 loads, geoRequests, geolocationSupported, seen>>

\* Faulty variant of markVisited: a place whose key is already visited is
\* marked again.
markVisitedAgain ==
  /\ mounted
  /\ IF currentIdx = None \/ currentKey = None
     THEN UNCHANGED <<visited, seen, currentIdx, statusMessage, selectionSource, localStorage>>
     ELSE /\ visited' = IF VisitedHas(Get(currentKey)) THEN visited
                        ELSE Append(visited, Get(currentKey))
          /\ seen' = seen \ {Get(currentIdx)}
          /\ currentIdx' = None
          /\ statusMessage' = Some("Marked as visited.")
          /\ selectionSource' = None
          /\ localStorage' = PersistVisited(localStorage, datasetId, visited')
  /\ last' = Event("markVisited")
  /\ UNCHANGED <<mounted, datasetId, data, loadError, loading, geoCache, datasetInfo, geoVars,
                 loads, geoRequests, geolocationSupported>>

\* The two early returns leave the state as it is; otherwise the key is
\* added, and the persist effect of the commit writes the new set.
markVisited ==
  /\ mounted
  /\ IF currentIdx = None \/ currentKey = None \/ VisitedHas(Get(currentKey))
     THEN UNCHANGED <<visited, seen, currentIdx, statusMessage, selectionSource, localStorage>>
     ELSE /\ visited' = Append(visited, Get(currentKey))
          /\ seen' = seen \ {Get(currentIdx)}
          /\ currentIdx' = None
          /\ statusMessage' = Some("Marked as visited.")
          /\ selectionSource' = None
          /\ localStorage' = PersistVisited(localStorage, datasetId, visited')
  /\ last' = Event("markVisited")
  /\ UNCHANGED <<mounted, datasetId, data, loadError, loading, geoCache, datasetInfo, geoVars,
                 loads, geoRequests, geolocationSupported>>

\* Faulty variant of clearVisited: the stored entry is removed but the set in
\* memory is kept (so no persist effect runs either).
clearVisitedStoreOnly ==
  /\ mounted
  /\ seen' = {}
  /\ currentIdx' = None
  /\ statusMessage' = Some("Visited places cleared.")
  /\ selectionSource' = None
  /\ localStorage' = [localStorage EXCEPT ![storageKey(datasetId)] = None]
  /\ last' = Event("clearVisited")
  /\ UNCHANGED <<mounted, datasetId, data, loadError, loading, geoCache, datasetInfo, geoVars,
                 loads, geoRequests, geolocationSupported, visited>>

\* removeItem runs in the handler; the persist effect of the commit then
\* writes the (empty) new set.
clearVisited ==
  /\ mounted
  /\ visited' = <<>>
  /\ seen' = {}
  /\ currentIdx' = None
  /\ statusMessage' = Some("Visited places cleared.")
  /\ selectionSource' = None
  /\ localStorage' = PersistVisited([localStorage EXCEPT ![storageKey(datasetId)] = None],
                                    datasetId, <<>>)
  /\ last' = Event("clearVisited")
  /\ UNCHANGED <<mounted, datasetId, data, loadError, loading, geoCache, datasetInfo, geoVars,
                 loads, geoRequests, geolocationSupported>>

\* Faulty variant of requestLocation: the capability is not tested.
requestLocationUntested ==
  /\ mounted
  /\ geoRequests < MaxGeoInFlight
  /\ locationError' = None
  /\ locationStatus' = "pending"
  /\ geolocating' = TRUE
  /\ geoRequests' = geoRequests + 1
  /\ last' = Event("requestLocation")
  /\ UNCHANGED <<mounted, appVars, userLocation, localStorage, loads, geolocationSupported>>

requestLocation ==
  /\ mounted
  /\ IF ~geolocationSupported
     THEN /\ locationError' = Some("Geolocation is not supported in this browser.")
          /\ locationStatus' = "denied"
          /\ UNCHANGED <<geolocating, geoRequests>>
     ELSE /\ geoRequests < MaxGeoInFlight
          /\ locationError' = None
          /\ locationStatus' = "pending"
          /\ geolocating' = TRUE
          /\ geoRequests' = geoRequests + 1
  /\ last' = Event("requestLocation")
  /\ UNCHANGED <<mounted, appVars, userLocation, localStorage, loads, geolocationSupported>>

\* Faulty variant of LocationFound: the status is set but the coordinate is
\* not stored.
LocationFoundStatusOnly(pos) ==
  /\ mounted
  /\ geoRequests > 0
  /\ geoRequests' = geoRequests - 1
  /\ geolocating' = FALSE
  /\ locationStatus' = "granted"
  /\ last' = Event("locationFound")
  /\ UNCHANGED <<mounted, appVars, userLocation, locationError, localStorage, loads,
                 geolocationSupported>>

\* Success callback of getCurrentPosition.
LocationFound(pos) ==
  /\ mounted
  /\ geoRequests > 0
  /\ geoRequests' = geoRequests - 1
  /\ userLocation' = Some(pos)
  /\ geolocating' = FALSE
  /\ locationStatus' = "granted"
  /\ last' = [Event("locationFound") EXCEPT !.resp = [kind |-> "position", coords |-> pos]]
  /\ UNCHANGED <<mounted, appVars, locationError, localStorage, loads, geolocationSupported>>

\* Faulty variant of LocationFailed: the coordinate of an earlier success is
\* dropped.
LocationFailedClearing(message) ==
  /\ mounted
  /\ geoRequests > 0
  /\ geoRequests' = geoRequests - 1
  /\ locationError' = Some(message)
  /\ userLocation' = None
  /\ geolocating' = FALSE
  /\ locationStatus' = "denied"
  /\ last' = Event("locationFailed")
  /\ UNCHANGED <<mounted, appVars, localStorage, loads, geolocationSupported>>

\* Error callback of getCurrentPosition (denial, timeout, platform error).
LocationFailed(message) ==
  /\ mounted
  /\ geoRequests > 0
  /\ geoRequests' = geoRequests - 1
  /\ locationError' = Some(message)
  /\ geolocating' = FALSE
  /\ locationStatus' = "denied"
  /\ last' = Event("locationFailed")
  /\ UNCHANGED <<mounted, appVars, userLocation, localStorage, loads, geolocationSupported>>

\* window.location.reload(): the page is constructed anew; localStorage is
\* kept, and the callbacks of the old page never run.
Restart ==
  /\ mounted
  /\ mounted' = FALSE
  /\ datasetId' = InitialDatasetId(localStorage)
  /\ data' = <<>>
  /\ loadError' = None
  /\ loading' = TRUE
  /\ seen' = {}
  /\ currentIdx' = None
  /\ selectionSource' = None
  /\ visited' = <<>>
  /\ geoCache' = <<>>
  /\ userLocation' = None
  /\ locationError' = None
  /\ geolocating' = FALSE
  /\ locationStatus' = "idle"
  /\ statusMessage' = None
  /\ datasetInfo' = None
  /\ loads' = <<>>
  /\ geoRequests' = 0
  /\ last' = Event("restart")
  /\ UNCHANGED <<localStorage, geolocationSupported>>

(***************************************************************************)
(* The rendered controls: a handler runs when its control is rendered and  *)
(* enabled.                                                                *)
(***************************************************************************)
\* a detail card with the "Mark visited" button is rendered for the hero
\* pick, or inside the expanded entry of the nearby list
CardShown ==
  /\ HasCurrent
  /\ \/ selectionSource # Some("list")
     \/ Get(currentIdx) \in NearbyIdx

ClickPick == ~(loading \/ allVisited) /\ handlePickRandom
ClickReset == ~(loading \/ currentIdx = None) /\ handleReset
ClickClearVisited == ~(loading \/ visitedCount = 0) /\ clearVisited
ClickDataset(id) == ~(loading /\ id # datasetId) /\ handleDatasetChange(id)
ClickNearby(idx) == idx \in NearbyIdx /\ focusPlace(idx)
ClickMarkVisited == CardShown /\ ~currentIsVisited /\ markVisited
ClickLocate == ~(loading \/ geolocating) /\ requestLocation

\* What is stored for a dataset when a load of it is about to start.
Observe(id) == storedBefore' = Some(StoredSet(localStorage[storageKey(id)]))

\* The application as rendered.
Next ==
  \/ Mount /\ Observe(datasetId)
  \/ \E i \in 1 .. Len(loads) : \E resp \in Responses(loads[i].ds) :
       LoadSettled(i, resp) /\ storedBefore' = None
  \/ ClickPick /\ UNCHANGED storedBefore
  \/ ClickReset /\ UNCHANGED storedBefore
  \/ ClickClearVisited /\ UNCHANGED storedBefore
  \/ \E id \in DatasetId : ClickDataset(id) /\ Observe(id)
  \/ \E idx \in Positions(data) : ClickNearby(idx) /\ UNCHANGED storedBefore
  \/ ClickMarkVisited /\ UNCHANGED storedBefore
  \/ ClickLocate /\ UNCHANGED storedBefore
  \/ \E pos \in UserPositions : LocationFound(pos) /\ UNCHANGED storedBefore
  \/ \E message \in GeoFailureMessages : LocationFailed(message) /\ UNCHANGED storedBefore
  \/ Restart /\ storedBefore' = None

Spec == Init /\ [][Next]_vars

\* The dataset, draw and visited handlers invoked directly, whatever the
\* controls currently allow: this reaches the paths of the handlers that the
\* rendered controls keep disabled (a switch while a load is outstanding, a
\* draw with nothing left to draw).  No observation is recorded.
NextOps ==
  \/ Mount /\ UNCHANGED storedBefore
  \/ \E i \in 1 .. Len(loads) : \E resp \in Responses(loads[i].ds) :
       LoadSettled(i, resp) /\ UNCHANGED storedBefore
  \/ handlePickRandom /\ UNCHANGED storedBefore
  \/ handleReset /\ UNCHANGED storedBefore
  \/ clearVisited /\ UNCHANGED storedBefore
  \/ \E id \in DatasetId : handleDatasetChange(id) /\ UNCHANGED storedBefore
  \/ markVisited /\ UNCHANGED storedBefore
  \/ Restart /\ UNCHANGED storedBefore

SpecOps == Init /\ [][NextOps]_vars

\* The application as rendered, except that the location handler is invoked
\* directly: this reaches location requests that overlap, and requests made
\* during a load, which the rendered button (disabled while loading or while
\* a request is outstanding) does not allow.  No observation is recorded.
NextGeo ==
  \/ Mount /\ UNCHANGED storedBefore
  \/ \E i \in 1 .. Len(loads) : \E resp \in Responses(loads[i].ds) :
       LoadSettled(i, resp) /\ UNCHANGED storedBefore
  \/ ClickPick /\ UNCHANGED storedBefore
  \/ ClickReset /\ UNCHANGED storedBefore
  \/ ClickClearVisited /\ UNCHANGED storedBefore
  \/ \E id \in DatasetId : ClickDataset(id) /\ UNCHANGED storedBefore
  \/ \E idx \in Positions(data) : ClickNearby(idx) /\ UNCHANGED storedBefore
  \/ ClickMarkVisited /\ UNCHANGED storedBefore
  \/ requestLocation /\ UNCHANGED storedBefore
  \/ \E pos \in UserPositions : LocationFound(pos) /\ UNCHANGED storedBefore
  \/ \E message \in GeoFailureMessages : LocationFailed(message) /\ UNCHANGED storedBefore
  \/ Restart /\ UNCHANGED storedBefore

SpecGeo == Init /\ [][NextGeo]_vars

\* Dataset resources generated to exercise the nearby list: n records with
\* distinct urls, laid out along the meridian northwards from latitude 1.300
\* in a pattern given by step and span (millidegrees); every eleventh record
\* has no location.  With span 16 every located record is within 2 km of
\* latitude 1.300, with span 40 some are not; step 0 puts them all at one
\* point and step 7 puts them in no particular order.
GeneratedPlaces(n, step, span) ==
  [i \in 1 .. n |->
     [url |-> Some("https://maps.example/p" \o ToString(i - 1)),
      title |-> Some("Stall"), street |-> None,
      location |-> IF (i - 1) % 11 = 5 THEN None
                   ELSE Some([lat |-> Some(1300 + (((i - 1) * step) % span)),
                              lng |-> Some(103800)]),
      scrapedAt |-> None]]

GeneratedResources ==
  {GeneratedPlaces(n, step, span) :
     n \in {1, NearbyLimit - 1, NearbyLimit, NearbyLimit + 1, MaxPlaces},
     step \in {0, 1, 7}, span \in {16, 40}}

\* The page after it was opened for the first time and the Singapore
\* resource, serving arr, was loaded: the values the success path of
\* loadDataset sets.
Loaded(arr) ==
  /\ mounted = TRUE
  /\ datasetId = DEFAULT_DATASET_ID
  /\ data = arr
  /\ visited = <<>>
  /\ geoCache = NextCoords(arr)
  /\ datasetInfo = Some([total |-> Len(arr), lastUpdated |-> Freshest(arr)])
  /\ seen = {}
  /\ currentIdx = None
  /\ selectionSource = None
  /\ statusMessage = None
  /\ loadError = None
  /\ loading = FALSE
  /\ userLocation = None
  /\ locationError = None
  /\ geolocating = FALSE
  /\ locationStatus = "idle"
  /\ localStorage = [k \in StorageKeys |->
                       IF k = DATASET_STORAGE_KEY THEN Some(DEFAULT_DATASET_ID)
                       ELSE IF k = storageKey(DEFAULT_DATASET_ID) THEN Some(JsonStringify(<<>>))
                       ELSE None]
  /\ loads = <<>>
  /\ geoRequests = 0
  /\ last = [op |-> "loadOk", req |-> Request(DEFAULT_DATASET_ID, "mount"),
              resp |-> [kind |-> "json", raw |-> [shape |-> "array", items |-> arr]]]
  /\ storedBefore = None

InitNearby ==
  /\ geolocationSupported \in BOOLEAN
  /\ \E arr \in GeneratedResources : Loaded(arr)

\* The nearby list of a loaded page as the user is located again and again.
NextNearby ==
  \/ requestLocation /\ UNCHANGED storedBefore
  \/ \E pos \in UserPositions : LocationFound(pos) /\ UNCHANGED storedBefore
  \/ \E message \in GeoFailureMessages : LocationFailed(message) /\ UNCHANGED storedBefore

SpecNearby == InitNearby /\ [][NextNearby]_vars

\* Dataset resources generated to exercise placeKey: two records, each with
\* its url, title and street missing, empty or set.
KeyedPlace(url, title, street) ==
  [url |-> url, title |-> title, street |-> street, location |-> None, scrapedAt |-> None]

KeyedPlaces ==
  {KeyedPlace(url, title, street) :
     url \in {None, Some(""), Some("https://maps.example/u7")},
     title \in {None, Some(""), Some("Nasi Lemak")},
     street \in {None, Some(""), Some("5 Street")}}

KeyedResources == {<<p, q>> : p \in KeyedPlaces, q \in KeyedPlaces}

InitKeys ==
  /\ geolocationSupported = FALSE
  /\ \E arr \in KeyedResources : Loaded(arr)

\* Draws and visited marks on a loaded page, as rendered.
NextKeys ==
  \/ ClickPick /\ UNCHANGED storedBefore
  \/ ClickReset /\ UNCHANGED storedBefore
  \/ ClickMarkVisited /\ UNCHANGED storedBefore
  \/ ClickClearVisited /\ UNCHANGED storedBefore

SpecKeys == InitKeys /\ [][NextKeys]_vars

\* A dataset resource to exercise a round of draws with list-focus actions
\* in between: four records within 2 km of latitude 1.300, positions 0 and 2
\* sharing one url, position 3 keyed by title and street.
RoundPlaces ==
  << [url |-> Some("https://maps.example/r1"), title |-> Some("Laksa House"), street |-> None,
      location |-> Some([lat |-> Some(1300), lng |-> Some(103800)]), scrapedAt |-> None],
     [url |-> Some("https://maps.example/r2"), title |-> Some("Satay Club"), street |-> None,
      location |-> Some([lat |-> Some(1302), lng |-> Some(103800)]), scrapedAt |-> None],
     [url |-> Some("https://maps.example/r1"), title |-> Some("Laksa House (annex)"),
      street |-> None,
      location |-> Some([lat |-> Some(1304), lng |-> Some(103800)]), scrapedAt |-> None],
     [url |-> None, title |-> Some("Kopi Corner"), street |-> Some("3 Way"),
      location |-> Some([lat |-> Some(1306), lng |-> Some(103800)]), scrapedAt |-> None] >>

InitRound ==
  /\ geolocationSupported = TRUE
  /\ Loaded(RoundPlaces)

\* Draws, list-focus actions, visited marks, resets and clearings on a
\* loaded page, as rendered, once the user has been located.
NextRound ==
  \/ ClickLocate /\ UNCHANGED storedBefore
  \/ \E pos \in UserPositions : LocationFound(pos) /\ UNCHANGED storedBefore
  \/ ClickPick /\ UNCHANGED storedBefore
  \/ \E idx \in Positions(data) : ClickNearby(idx) /\ UNCHANGED storedBefore
  \/ ClickMarkVisited /\ UNCHANGED storedBefore
  \/ ClickReset /\ UNCHANGED storedBefore
  \/ ClickClearVisited /\ UNCHANGED storedBefore

SpecRound == InitRound /\ [][NextRound]_vars

\* As SpecRound, with markVisited invoked directly: this reaches its early
\* returns, which the rendered button (shown with a focused place, disabled
\* once that place is visited) does not allow.
NextMark ==
  \/ ClickLocate /\ UNCHANGED storedBefore
  \/ \E pos \in UserPositions : LocationFound(pos) /\ UNCHANGED storedBefore
  \/ ClickPick /\ UNCHANGED storedBefore
  \/ \E idx \in Positions(data) : ClickNearby(idx) /\ UNCHANGED storedBefore
  \/ markVisited /\ UNCHANGED storedBefore
  \/ ClickReset /\ UNCHANGED storedBefore
  \/ ClickClearVisited /\ UNCHANGED storedBefore

SpecMark == InitRound /\ [][NextMark]_vars

\* The dataset loads of a page: the first commit, dataset switches invoked
\* directly (so also while a load is outstanding), and the settling of the
\* fetches.  The first commit always happens, and an issued fetch always
\* resolves or rejects at some time.
NextLoad ==
  \/ Mount /\ UNCHANGED storedBefore
  \/ \E i \in 1 .. Len(loads) : \E resp \in Responses(loads[i].ds) :
       LoadSettled(i, resp) /\ UNCHANGED storedBefore
  \/ \E id \in DatasetId : handleDatasetChange(id) /\ UNCHANGED storedBefore

SomeLoadSettles ==
  \E i \in 1 .. Len(loads) : \E resp \in Responses(loads[i].ds) :
    LoadSettled(i, resp) /\ UNCHANGED storedBefore

SpecLoad ==
  /\ Init
  /\ [][NextLoad]_vars
  /\ WF_vars(Mount /\ UNCHANGED storedBefore)
  /\ WF_vars(SomeLoadSettles)

TypeOK ==
  /\ mounted \in BOOLEAN
  /\ datasetId \in DatasetId
  /\ loading \in BOOLEAN
  /\ seen \subseteq (Positions(data) \cup Positions(SingaporePlaces))
  /\ Len(currentIdx) <= 1
  /\ selectionSource \in {None, Some("hero"), Some("list")}
  /\ locationStatus \in {"idle", "pending", "granted", "denied"}
  /\ geoRequests \in 0 .. MaxGeoInFlight
  /\ Len(loads) <= MaxInFlight

(***************************************************************************)
(* Properties.                                                             *)
(***************************************************************************)
EligibleSet == {i \in Positions(data) : ~VisitedHas(KeyAt(data, i))}

\* C1: in a run of draws on a loaded dataset with N eligible places (the
\* seen set holding eligible positions only, as after a load and after every
\* draw), a draw made while fewer than N positions are seen picks a position
\* not yet seen and the seen set grows by exactly that position; only the
\* draw made when all N are seen starts over, with the pick as the only
\* seen position.
C1_NoRepeatBeforeExhaustion ==
  [][ (last'.op = "pick" /\ EligibleSet # {} /\ seen \subseteq EligibleSet) =>
        /\ currentIdx' # None
        /\ Get(currentIdx') \in EligibleSet
        /\ IF Cardinality(seen) < Cardinality(EligibleSet)
           THEN /\ Get(currentIdx') \notin seen
                /\ seen' = seen \cup {Get(currentIdx')}
                /\ Cardinality(seen') = Cardinality(seen) + 1
           ELSE seen' = {Get(currentIdx')} ]_vars

\* A round of three draws has shown all three eligible places.
C1_Witness ==
  /\ last.op = "pick"
  /\ Cardinality(EligibleSet) = 3
  /\ seen = EligibleSet

\* C2: the place a draw has just made current never has its key in the
\* visited set.
C2_DrawNeverPicksVisited ==
  (last.op = "pick" /\ currentIdx # None) =>
     /\ Get(currentIdx) \in Positions(data)
     /\ ~VisitedHas(KeyAt(data, Get(currentIdx)))

\* A draw made after the key shared by positions 0 and 2 was marked visited.
C2_Witness ==
  /\ last.op = "pick"
  /\ Len(data) = 3
  /\ KeyAt(data, 0) = KeyAt(data, 2)
  /\ VisitedHas(KeyAt(data, 2))
  /\ currentIdx = Some(1)

StoredFor(id) == StoredSet(localStorage[storageKey(id)])
LoadSettledOps == {"loadOk", "loadFailed", "loadDiscarded"}

\* C3: when the application is started afresh and the load of the selected
\* dataset succeeds, every key that was stored for that dataset at the start
\* and that names a loaded record is in the visited set.
C3_StoredVisitedSurvivesRestart ==
  [][ (last'.op = "loadOk" /\ last'.req.origin = "mount" /\ storedBefore # None) =>
        \A key \in Get(storedBefore) \cap KeysOf(data') : Contains(visited', key) ]_vars

\* C4: when the load that follows a dataset switch succeeds, the visited set
\* is exactly the keys that were stored for the new dataset before the
\* switch and that name a loaded record.
C4_SwitchLoadsOwnVisited ==
  [][ (last'.op = "loadOk" /\ last'.req.origin = "switch" /\ storedBefore # None) =>
        Range(visited') = Get(storedBefore) \cap KeysOf(data') ]_vars

\* C5: the result of a load that was superseded by a later selection,
\* success or error, changes nothing of the application state when it
\* arrives; and once no load is outstanding the records shown are those of
\* the active selection (or none, after an error).
C5_SupersededResultDiscarded ==
  /\ [][ (last'.op \in LoadSettledOps /\ last'.req.cancelled) =>
           UNCHANGED <<data, visited, geoCache, datasetInfo, seen, currentIdx,
                       selectionSource, statusMessage, loadError, loading>> ]_vars
  /\ []((mounted /\ loads = <<>>) =>
          /\ ~loading
          /\ data \in {<<>>, Content(datasetId)}
          /\ (data = <<>>) = (loadError # None))

\* The result of a superseded load for another selection arrived last, after
\* the load of the active selection had completed.
C5_Witness ==
  /\ last.op = "loadDiscarded"
  /\ last.req.ds # datasetId
  /\ last.resp.kind = "json"
  /\ loads = <<>>
  /\ data = Content(datasetId)

\* C6 as stated: neither a draw nor a list-focus action makes current a place
\* whose key is in the visited set.
C6_VisitedNeverFocused ==
  (last.op \in {"pick", "focus"} /\ HasCurrent) => ~currentIsVisited

\* C6, amended: marking the current place visited puts its key into the
\* visited set and takes its position out of the seen set, and no draw makes
\* current a place whose key is visited (a list-focus action may).
C6_MarkedLeavesSeenAndDraws ==
  [][ /\ (last'.op = "markVisited" =>
            /\ Contains(visited', KeyAt(data, Get(currentIdx)))
            /\ Get(currentIdx) \notin seen'
            /\ seen' \subseteq seen)
      /\ ((last'.op = "pick" /\ currentIdx' # None) =>
            ~Contains(visited', KeyAt(data', Get(currentIdx')))) ]_vars

\* A draw made after the place at position 1 was marked visited.
C6_Witness ==
  /\ last.op = "pick"
  /\ Len(data) = 3
  /\ visited = <<KeyAt(data, 1)>>
  /\ currentIdx \in {Some(0), Some(2)}

\* C7: after the load that follows a dataset switch has succeeded, the seen
\* set is empty, there is no current index, no selection source and no
\* status message.
C7_SwitchResetsRound ==
  (last.op = "loadOk" /\ last.req.origin = "switch") =>
     /\ seen = {}
     /\ currentIdx = None
     /\ selectionSource = None
     /\ statusMessage = None

\* The load after a switch away from a dataset in which a place had been
\* marked visited has succeeded.
C7_Witness ==
  /\ last.op = "loadOk"
  /\ last.req.origin = "switch"
  /\ \E id \in DatasetId \ {datasetId} : StoredFor(id) # {}
  /\ seen = {}

\* C8: after clear-visited the visited set and the seen set are empty, no
\* place is focused and the stored entry of the active dataset denotes the
\* empty set; and a load after a fresh start that found the empty set stored
\* yields an empty visited set.
C8_ClearVisitedEmptiesStore ==
  /\ [](last.op = "clearVisited" =>
          /\ visited = <<>>
          /\ seen = {}
          /\ currentIdx = None
          /\ selectionSource = None
          /\ StoredFor(datasetId) = {})
  /\ [][ (last'.op = "loadOk" /\ last'.req.origin = "mount" /\ storedBefore = Some({})) =>
           visited' = <<>> ]_vars

\* Clear-visited has just run on a loaded dataset.
C8_Witness ==
  /\ last.op = "clearVisited"
  /\ Len(data) > 0
  /\ visited = <<>>
  /\ localStorage[storageKey(datasetId)] = Some(JsonStringify(<<>>))

\* C9: after a failed load the state is the empty fallback, with nothing
\* left of the previous dataset.
C9_FailedLoadLeavesEmptyState ==
  last.op = "loadFailed" =>
     /\ data = <<>>
     /\ visited = <<>>
     /\ DOMAIN geoCache = {}
     /\ datasetInfo = None
     /\ loadError # None
     /\ ~loading
     /\ seen = {}
     /\ currentIdx = None
     /\ selectionSource = None

\* C10: an empty list, an object whose data is an empty list and a payload
\* of neither accepted shape end in the load error with no records; a
\* non-empty list loads its records in order, bare or wrapped under data.
C10_PayloadShapes ==
  (last.op \in {"loadOk", "loadFailed"} /\ last.resp.kind = "json") =>
     LET raw == last.resp.raw
         wrapped == raw.shape = "object" /\ raw.data # None
         records == IF raw.shape = "array" THEN raw.items
                    ELSE IF wrapped THEN Get(raw.data) ELSE <<>>
     IN IF (raw.shape = "array" \/ wrapped) /\ records # <<>>
        THEN last.op = "loadOk" /\ data = records /\ loadError = None
        ELSE /\ last.op = "loadFailed"
             /\ data = <<>>
             /\ loadError = Some("Dataset is empty or invalid.")

\* The load of { "data": [] } has just failed.
C10_Witness ==
  /\ last.op = "loadFailed"
  /\ last.resp = [kind |-> "json", raw |-> [shape |-> "object", data |-> Some(<<>>)]]
  /\ data = <<>>
  /\ loadError # None

\* The load of a non-empty list wrapped under data has just succeeded.
C10_WitnessWrapped ==
  /\ last.op = "loadOk"
  /\ last.resp.kind = "json"
  /\ last.resp.raw.shape = "object"
  /\ data = Get(last.resp.raw.data)

\* C11: a successful load of a dataset leaves in that dataset's stored
\* entry every key that was stored for it when the load was started and that
\* names no record of the loaded content.
C11_OrphanedKeysStayStored ==
  [][ (last'.op = "loadOk" /\ storedBefore # None) =>
        \A key \in Get(storedBefore) \ KeysOf(data') :
           key \in StoredSet(localStorage'[storageKey(datasetId')]) ]_vars

GeoOps == {"requestLocation", "locationFound", "locationFailed"}

\* C12: the location status is idle when the page is constructed; a call of
\* requestLocation sets it to pending on a capable platform, whatever it was,
\* and to denied on an incapable one; it becomes granted only by a success
\* callback, which also stores the coordinate, denied only by a failure
\* callback or by a call on an incapable platform, and within the life of a
\* page it never becomes idle again.
C12_LocationStatusMoves ==
  /\ [](~mounted => locationStatus = "idle")
  /\ [][ last'.op = "requestLocation" =>
           locationStatus' = IF geolocationSupported THEN "pending" ELSE "denied" ]_vars
  /\ [][ last'.op = "locationFound" =>
           locationStatus' = "granted" /\ userLocation' # None ]_vars
  /\ [][ locationStatus' # locationStatus =>
           CASE locationStatus' = "pending" ->
                  last'.op = "requestLocation" /\ geolocationSupported
             [] locationStatus' = "granted" ->
                  last'.op = "locationFound" /\ userLocation' # None
             [] locationStatus' = "denied" ->
                  \/ last'.op = "locationFailed"
                  \/ last'.op = "requestLocation" /\ ~geolocationSupported
             [] OTHER -> last'.op = "restart" /\ ~mounted' ]_vars

\* requestLocation was called again after a success and set pending.
C12_Witness ==
  /\ last.op = "requestLocation"
  /\ locationStatus = "pending"
  /\ userLocation # None
  /\ geoRequests = 1

\* C13: each response to a location request overwrites the state when it
\* arrives, also while other requests are outstanding: a success sets
\* granted and the coordinate it reports, a failure sets denied and keeps the
\* coordinate; no operation other than requestLocation and the responses
\* touches the status or the coordinate, so once every request has been
\* answered the status is that of the last response; and the coordinate of a
\* page, once set, is never cleared.
C13_LastResponseWins ==
  /\ [][ last'.op = "locationFound" =>
           /\ locationStatus' = "granted"
           /\ userLocation' = Some(last'.resp.coords) ]_vars
  /\ [][ last'.op = "locationFailed" =>
           /\ locationStatus' = "denied"
           /\ UNCHANGED userLocation ]_vars
  /\ [][ last'.op \notin (GeoOps \cup {"restart"}) =>
           UNCHANGED <<locationStatus, userLocation>> ]_vars
  /\ [][ (userLocation # None /\ last'.op # "restart") => userLocation' # None ]_vars
  /\ [](geoRequests = 0 => locationStatus # "pending")

\* Of two overlapping requests, one has failed after a coordinate had been
\* stored; the other is still outstanding.
C13_Witness ==
  /\ last.op = "locationFailed"
  /\ geoRequests = 1
  /\ locationStatus = "denied"
  /\ userLocation # None

\* The distance of the record at position i from the user, by the
\* coordinate the geo cache holds for its key.
CachedDistance(i) == haversineDistance(Get(userLocation), geoCache[KeyAt(data, i)])

NearbyWithinRadiusAndLimit ==
  /\ Len(nearbyPlaces) <= NearbyLimit
  /\ \A n \in 1 .. Len(nearbyPlaces) :
       /\ nearbyPlaces[n].idx \in Positions(data)
       /\ KeyAt(data, nearbyPlaces[n].idx) \in DOMAIN geoCache
       /\ nearbyPlaces[n].distance = CachedDistance(nearbyPlaces[n].idx)
       /\ nearbyPlaces[n].distance <= NearbyRadiusKm * 1000

\* C14 as stated: the nearby list has no record farther than 2 km, at most
\* 30 entries, and each entry's distance is strictly smaller than the next
\* one's.
C14_NearbyStrictlyAscending ==
  /\ NearbyWithinRadiusAndLimit
  /\ \A n \in 1 .. (Len(nearbyPlaces) - 1) :
       nearbyPlaces[n].distance < nearbyPlaces[n + 1].distance

\* C14, amended: the nearby list has no record farther than 2 km, at most 30
\* entries, and is sorted ascending by distance: each entry's distance is
\* smaller than or equal to the next one's.
C14_NearbyAscending ==
  /\ NearbyWithinRadiusAndLimit
  /\ \A n \in 1 .. (Len(nearbyPlaces) - 1) :
       nearbyPlaces[n].distance <= nearbyPlaces[n + 1].distance

\* More than 30 records are within 2 km, not all at one distance: the list
\* is cut to 30.
C14_Witness ==
  /\ userLocation # None
  /\ Len(NearbyEntries(0)) > NearbyLimit
  /\ Len(nearbyPlaces) = NearbyLimit
  /\ nearbyPlaces[1].distance < nearbyPlaces[NearbyLimit].distance

NonEmpty(o) == o \notin {None, Some("")}

\* C15: the key of every record of the loaded data is its url when that is
\* non-empty, else its title and street joined by "::" when the title is
\* non-empty, else "index-" and its position; it is never the empty string;
\* and two records with the same non-empty url have the same key, whatever
\* their other fields and positions.
C15_PlaceKeyCases ==
  \A i \in Positions(data) :
    LET place == At(data, i)
        key == placeKey(place, i)
    IN /\ key # ""
       /\ NonEmpty(place.url) => key = Get(place.url)
       /\ (~NonEmpty(place.url) /\ NonEmpty(place.title)) =>
            \/ place.street = None /\ key = Get(place.title) \o "::"
            \/ place.street # None /\ key = Get(place.title) \o "::" \o Get(place.street)
       /\ (~NonEmpty(place.url) /\ ~NonEmpty(place.title)) =>
            key = "index-" \o ToString(i)
       /\ \A j \in Positions(data) :
            (NonEmpty(place.url) /\ At(data, j).url = place.url) =>
               placeKey(At(data, j), j) = key

\* Two records with one url and different titles: marking one visited has
\* left nothing to draw.
C15_Witness ==
  /\ last.op = "markVisited"
  /\ Len(data) = 2
  /\ NonEmpty(At(data, 0).url)
  /\ At(data, 0).url = At(data, 1).url
  /\ At(data, 0).title # At(data, 1).title
  /\ visited = <<Get(At(data, 0).url)>>
  /\ availableCount = 0

\* C16: the active dataset identifier is always one of the identifiers of
\* DATASETS; when the page has been constructed it is the stored identifier
\* if that is one of them and the default otherwise; and after a dataset
\* switch (as in every state of a mounted page) the stored selection entry
\* is the active identifier.
C16_SelectionEnumeratedAndStored ==
  /\ datasetId \in DatasetId
  /\ ~mounted =>
       datasetId = IF localStorage[DATASET_STORAGE_KEY] \in {Some(id) : id \in DatasetId}
                   THEN Get(localStorage[DATASET_STORAGE_KEY])
                   ELSE DEFAULT_DATASET_ID
  /\ last.op = "switch" => localStorage[DATASET_STORAGE_KEY] = Some(datasetId)
  /\ mounted => localStorage[DATASET_STORAGE_KEY] = Some(datasetId)

\* A switch to the non-default dataset, made while the previous load was
\* still outstanding.
C16_Witness ==
  /\ last.op = "switch"
  /\ Len(loads) = 2
  /\ datasetId # DEFAULT_DATASET_ID
  /\ localStorage[DATASET_STORAGE_KEY] = Some(datasetId)

\* C17: whatever draws, list-focus actions, visited marks, resets and
\* clearings came before, a draw on a loaded dataset with an eligible place
\* has something to pick, and it makes current, with source hero, a valid
\* position of an eligible record that was not seen before the draw unless
\* every eligible position was; afterwards the seen set has the pick and
\* only eligible positions.
C17_DrawAlwaysPicksEligible ==
  /\ []((mounted /\ ~loading /\ EligibleSet # {}) => Len(Pool) > 0)
  /\ [][ (last'.op = "pick" /\ EligibleSet # {}) =>
           /\ currentIdx' # None
           /\ selectionSource' = Some("hero")
           /\ Get(currentIdx') \in Positions(data')
           /\ Get(currentIdx') \in EligibleSet
           /\ (Get(currentIdx') \in seen => EligibleSet \subseteq seen)
           /\ Get(currentIdx') \in seen'
           /\ seen' \subseteq EligibleSet
           /\ UNCHANGED <<data, visited>> ]_vars

\* With the key shared by positions 0 and 2 visited, a round of draws has
\* shown both remaining places; the user has been located, so the nearby
\* list with the visited places is on display.
C17_Witness ==
  /\ last.op = "pick"
  /\ Len(data) = 4
  /\ KeyAt(data, 0) = KeyAt(data, 2)
  /\ visited = <<KeyAt(data, 0)>>
  /\ NearbyIdx = Positions(data)
  /\ seen = {1, 3}
  /\ currentIdx \in {Some(1), Some(3)}
  /\ selectionSource = Some("hero")

AllVisitedMessage == Some("All places are marked visited. Clear visited to start over.")

\* C18: a draw on a loaded dataset in which every record's key is visited
\* leaves no place focused and no selection source, sets the "all visited"
\* status message, and leaves the seen set, the visited set and the stored
\* entries unchanged.
C18_EmptyPoolDrawKeepsSets ==
  [][ (last'.op = "pick" /\ ~loading /\ Len(data) > 0 /\ EligibleSet = {}) =>
        /\ currentIdx' = None
        /\ selectionSource' = None
        /\ statusMessage' = AllVisitedMessage
        /\ UNCHANGED <<seen, visited, localStorage, data>> ]_vars

\* A draw found every key visited while position 0 was still in the seen
\* set (its key became visited when position 2 was marked).
C18_Witness ==
  /\ last.op = "pick"
  /\ Len(data) = 3
  /\ EligibleSet = {}
  /\ seen = {0}
  /\ currentIdx = None
  /\ statusMessage = AllVisitedMessage

\* C19: mark-visited changes nothing when no place is focused or when the
\* key of the focused place is already visited; otherwise the visited set
\* gains exactly the key of the focused place, the stored entry of the
\* active dataset has that key, no place is focused and the confirmation
\* message is set.
C19_MarkVisitedEffect ==
  [][ last'.op = "markVisited" =>
        IF ~HasCurrent \/ currentIsVisited
        THEN UNCHANGED <<appVars, geoVars, localStorage, loads, geoRequests>>
        ELSE /\ Range(visited') = Range(visited) \cup {KeyAt(data, Get(currentIdx))}
             /\ Len(visited') = Len(visited) + 1
             /\ KeyAt(data, Get(currentIdx)) \in StoredSet(localStorage'[storageKey(datasetId')])
             /\ StoredSet(localStorage'[storageKey(datasetId')]) = Range(visited')
             /\ currentIdx' = None
             /\ selectionSource' = None
             /\ statusMessage' = Some("Marked as visited.") ]_vars

\* Mark-visited was invoked on a place focused from the nearby list whose
\* key was already visited: the place is still focused.
C19_Witness ==
  /\ last.op = "markVisited"
  /\ HasCurrent
  /\ currentIsVisited
  /\ selectionSource = Some("list")
  /\ Len(visited) = 1

\* C20: a list-focus action on position i clears the focus and the source
\* when i is the focused position, whatever its source, and otherwise makes
\* i current with source list; either way the seen set afterwards is the
\* seen set before together with i, and the visited set and what is stored
\* are unchanged.
C20_ListFocusToggles ==
  [][ last'.op = "focus" =>
        LET i == last'.resp.idx IN
        /\ IF currentIdx = Some(i)
           THEN currentIdx' = None /\ selectionSource' = None
           ELSE currentIdx' = Some(i) /\ selectionSource' = Some("list")
        /\ i \in seen'
        /\ seen \subseteq seen'
        /\ seen' = seen \cup {i}
        /\ UNCHANGED <<visited, localStorage, data>> ]_vars

\* The focused place was focused again from the list: nothing is focused,
\* and the seen set, which covers every position, was not started over.
C20_Witness ==
  /\ last.op = "focus"
  /\ currentIdx = None
  /\ selectionSource = None
  /\ Len(data) = 4
  /\ seen = Positions(data)
  /\ visited # <<>>

\* C21: on a platform without the geolocation capability a call of
\* requestLocation sets the status to denied and the error message at once,
\* starts no request (none is ever outstanding, so no callback runs), and
\* leaves the user coordinate and the geolocating flag as they were.
C21_IncapablePlatformDenied ==
  /\ [](~geolocationSupported => geoRequests = 0)
  /\ [][ ~geolocationSupported => last'.op \notin {"locationFound", "locationFailed"} ]_vars
  /\ [][ (last'.op = "requestLocation" /\ ~geolocationSupported) =>
           /\ locationStatus' = "denied"
           /\ locationError' = Some("Geolocation is not supported in this browser.")
           /\ UNCHANGED <<userLocation, geolocating, geoRequests>> ]_vars

\* requestLocation has been called on an incapable platform.
C21_Witness ==
  /\ last.op = "requestLocation"
  /\ ~geolocationSupported
  /\ locationStatus = "denied"
  /\ locationError # None
  /\ geoRequests = 0
  /\ ~geolocating

\* The explained state a load ends in: records and no error, or no records
\* and an error message.
LoadOutcomeExplained ==
  \/ data # <<>> /\ loadError = None
  \/ data = <<>> /\ loadError # None

\* C22: when every issued fetch resolves or rejects, then unless dataset
\* switches go on for ever, the loading flag becomes false and stays false,
\* with either records and no load error or no records and a load error
\* message.
C22_LoadingEnds ==
  \/ []<>(last.op = "switch")
  \/ <>[](~loading /\ LoadOutcomeExplained)

\* After a switch made while the first load was outstanding, the load of
\* the new selection has failed: loading is over, with an error message.
C22_Witness ==
  /\ last.op = "loadFailed"
  /\ last.req.origin = "switch"
  /\ loads = <<>>
  /\ ~loading
  /\ data = <<>>
  /\ loadError # None

\* C23: the current index is set exactly when the selection source is set.
C23_FocusHasSource ==
  (currentIdx # None) <=> (selectionSource # None)

\* C24: whatever is written to the stored visited entry of a dataset
\* identifier, the keys it gains are keys of records of that dataset.
C24_EntryGainsOwnKeysOnly ==
  [][ \A id \in DatasetId :
        (StoredSet(localStorage'[storageKey(id)]) \ StoredSet(localStorage[storageKey(id)]))
          \subseteq KeysOf(Content(id)) ]_vars

SecondOfTwoDraws ==
  /\ last.op = "pick"
  /\ last'.op = "pick"
  /\ last'.resp.turn # last.resp.turn
  /\ currentIdx # None
  /\ Cardinality(EligibleSet) >= 2

\* C26 as stated: with at least two places eligible, a draw that directly
\* follows another never picks the position the first one picked.
C26_ConsecutiveDrawsDiffer ==
  [][ SecondOfTwoDraws => currentIdx' # currentIdx ]_vars

\* C26, amended: with at least two places eligible, a draw that directly
\* follows another never picks the position the first one picked, unless it
\* is the draw that starts a new round (every eligible position had been
\* seen), which picks among all eligible positions.
C26_ConsecutiveDrawsDifferWithinRound ==
  [][ SecondOfTwoDraws =>
        /\ currentIdx' # None
        /\ Get(currentIdx') \in EligibleSet
        /\ (currentIdx' = currentIdx => EligibleSet \subseteq seen) ]_vars

\* With three places eligible, the fourth draw in a row has started a new
\* round: its pick is the only position seen.
C26_Witness ==
  /\ last.op = "pick"
  /\ last.resp.turn = 1
  /\ Len(data) = 4
  /\ visited = <<KeyAt(data, 1)>>
  /\ currentIdx = Some(3)
  /\ seen = {3}

\* A visited key that more than one loaded record has.
VisitedKeyShared ==
  \E i, j \in Positions(data) :
    i # j /\ KeyAt(data, i) = KeyAt(data, j) /\ VisitedHas(KeyAt(data, i))

\* C27 as stated: with a dataset loaded and no load in flight, the visited
\* count plus the available count is the number of loaded records.
C27_CountsAddUp ==
  (mounted /\ ~loading /\ Len(data) > 0) =>
     visitedCount + availableCount = Len(data)

\* C27, amended: with a dataset loaded and no load in flight, every visited
\* key is the key of a loaded record, the visited count plus the available
\* count is at most the number of loaded records, and it is that number
\* exactly when no visited key is shared by two loaded records.
C27_CountsAddUpUnlessKeyShared ==
  (mounted /\ ~loading /\ Len(data) > 0) =>
     /\ Range(visited) \subseteq KeysOf(data)
     /\ visitedCount + availableCount <= Len(data)
     /\ (visitedCount + availableCount = Len(data)) <=> ~VisitedKeyShared

\* Two records share a url; one was marked visited: one visited key, no
\* available record, two records.
C27_Witness ==
  /\ last.op = "markVisited"
  /\ Len(data) = 2
  /\ VisitedKeyShared
  /\ visitedCount = 1
  /\ availableCount = 0

====
